---- MODULE Spec2Model ----
\* The per-partition pending-message buffer of the asynchronous producer
\* (producer_partition_buffer.go) and the ProduceRequest wire codec.
EXTENDS Integers, Sequences, FiniteSets, TLC

\* ---------------------------------------------------------------- constants
minQueueLen == 16
maxBuffer == 1024

\* ------------------------------------------------------------------- bounds
\* Number of add calls, of markFailure calls and of add calls with a failing
\* encoder explored by the specification of all operations.
MaxAdds == 3
MaxFails == 2
MaxBadAdds == 1
\* Number of add calls explored by the free-running specification.
GrowAdds == 18
\* Number of markFailure calls explored by the free-running specification.
GrowFails == 1
\* Largest batch size n handed to markSuccess / markFailure / markImmediateFailure.
MaxBatch == 3
\* Largest Producer.Retry.Max explored.
MaxRetryMax == 2
\* Number of add calls explored by the drafted-batch specification.
DeepAdds == 34
\* Number of add / next / markSuccess(1) cycles of the test scenario, and of
\* markFailure calls on one entry when Retry.Max is 0.
CycleAdds == 40
CycleFails == 3
\* Number of add calls beyond maxBuffer explored by the backpressure specification.
FullSlack == 3
\* Number of messages and sets put into one ProduceRequest.
MaxCalls == 2
\* Messages added and retryable failures injected by the producer with retries.
RetryAdds == 18
RetryFails == 2
\* Messages added by the owner task that runs against the successes consumer.
ChanAdds == 4

\* ------------------------------------------------------------------ helpers
\* A Go pointer is modelled as a sequence: <<>> is nil, <<x>> points to x.
Nil == <<>>
Ptr(x) == <<x>>
Deref(p) == p[1]

Min(a, b) == IF a < b THEN a ELSE b
Max(a, b) == IF a > b THEN a ELSE b

\* Go's % : the result takes the sign of the dividend.
GoMod(a, b) == IF a >= 0 THEN a % b ELSE 0 - ((0 - a) % b)

\* The errors a broker response (or an encoder) can carry.
Errs == {"errA", "errB"}
ErrEncode == "errEncode"

\* ppbMessage zero value.
ZeroEntry == [in |-> Nil, out |-> Nil, retries |-> 0]

\* make([]ppbMessage, n)
MakeBuf(n) == [i \in 1..n |-> ZeroEntry]

\* Go's copy(dst[off:], src): copies min(len(dst)-off, len(src)) elements.
CopyAt(dst, off, src) ==
  [i \in 1..Len(dst) |->
     IF i > off /\ i - off <= Len(src) THEN src[i - off] ELSE dst[i]]

\* Go's s[lo:hi] (0-based, half open).
Slice(s, lo, hi) == [i \in 1..(hi - lo) |-> s[lo + i]]

\* A Go []byte: Nil, or Bytes(s) for the (possibly empty) byte sequence s.
Bytes(s) == <<s>>

\* Encoder.Encode(): an encoder either yields its bytes or fails.
Encode(enc) == [bytes |-> enc.bytes, err |-> enc.fails]

\* returnError(msg, err): the message is deposited on the error channel paired with err.
returnError(chan, in, err) == Append(chan, [Msg |-> in, Err |-> err])

\* ProducerMessage.clear(): drops the large payload fields before the message is handed back.
clear(pm) == [pm EXCEPT !.Key = Nil, !.Value = Nil]

\* ------------------------------------------------------------ the buffer ops
\* A buffer value p is [buf, head, tail, count, cur]; indexes are 0-based as in
\* the source, buf[i + 1] is the source's ppb.buf[i].

newPPB == [buf |-> MakeBuf(minQueueLen), head |-> 0, tail |-> 0, count |-> 0, cur |-> 0]

\* Mutant: the ceiling test is off by one.
full_offByOne(p) == p.count > maxBuffer

full(p) == p.count = maxBuffer

\* Mutant: the cursor test stops one entry early.
hasNext_offByOne(p) == p.count > 0 /\ p.cur < p.count - 1

hasNext(p) == p.count > 0 /\ p.cur < p.count

\* Mutant: only the run from head to the end of the array is copied.
resize_singleRun(p) ==
  LET newBuf == MakeBuf(p.count * 2)
      n      == Len(p.buf)
      filled == IF p.tail > p.head
                  THEN CopyAt(newBuf, 0, Slice(p.buf, p.head, p.tail))
                  ELSE CopyAt(newBuf, 0, Slice(p.buf, p.head, n))
  IN [p EXCEPT !.head = 0, !.tail = p.count, !.buf = filled]

\* Mutant: tail is left where it was in the old array.
resize_keepTail(p) ==
  LET newBuf == MakeBuf(p.count * 2)
      n      == Len(p.buf)
      filled == IF p.tail > p.head
                  THEN CopyAt(newBuf, 0, Slice(p.buf, p.head, p.tail))
                  ELSE CopyAt(CopyAt(newBuf, 0, Slice(p.buf, p.head, n)),
                              n - p.head, Slice(p.buf, 0, p.tail))
  IN [p EXCEPT !.head = 0, !.buf = filled]

resize(p) ==
  LET newBuf == MakeBuf(p.count * 2)
      n      == Len(p.buf)
      filled == IF p.tail > p.head
                  THEN CopyAt(newBuf, 0, Slice(p.buf, p.head, p.tail))
                  ELSE CopyAt(CopyAt(newBuf, 0, Slice(p.buf, p.head, n)),
                              n - p.head, Slice(p.buf, 0, p.tail))
  IN [p EXCEPT !.head = 0, !.tail = p.count, !.buf = filled]

\* Mutant: the appended entry keeps the retry counter the slot held before.
add_keepRetries(p, in, errChan) ==
  LET k == IF in.Key # Nil THEN Encode(Deref(in.Key)) ELSE [bytes |-> Nil, err |-> FALSE]
      v == IF in.Value # Nil THEN Encode(Deref(in.Value)) ELSE [bytes |-> Nil, err |-> FALSE]
  IN IF (in.Key # Nil /\ k.err) \/ (in.Value # Nil /\ v.err)
       THEN [p |-> p, errors |-> returnError(errChan, Ptr(in), ErrEncode)]
       ELSE
         LET q == IF p.count = Len(p.buf) THEN resize(p) ELSE p
         IN [p |-> [q EXCEPT !.buf[q.tail + 1].in = Ptr(in),
                             !.buf[q.tail + 1].out =
                                Ptr([Codec |-> "CompressionNone", Key |-> k.bytes, Value |-> v.bytes]),
                             !.tail = (q.tail + 1) % Len(q.buf),
                             !.count = q.count + 1],
             errors |-> errChan]

\* Mutant: the array is grown before the key and the value are encoded.
add_growFirst(p, in, errChan) ==
  LET q == IF p.count = Len(p.buf) THEN resize(p) ELSE p
      k == IF in.Key # Nil THEN Encode(Deref(in.Key)) ELSE [bytes |-> Nil, err |-> FALSE]
      v == IF in.Value # Nil THEN Encode(Deref(in.Value)) ELSE [bytes |-> Nil, err |-> FALSE]
  IN IF (in.Key # Nil /\ k.err) \/ (in.Value # Nil /\ v.err)
       THEN [p |-> q, errors |-> returnError(errChan, Ptr(in), ErrEncode)]
       ELSE [p |-> [q EXCEPT !.buf[q.tail + 1] =
                               [in |-> Ptr(in),
                                out |-> Ptr([Codec |-> "CompressionNone", Key |-> k.bytes, Value |-> v.bytes]),
                                retries |-> 0],
                             !.tail = (q.tail + 1) % Len(q.buf),
                             !.count = q.count + 1],
             errors |-> errChan]

\* add(in): the result is the buffer and the error channel.
add(p, in, errChan) ==
  LET k == IF in.Key # Nil THEN Encode(Deref(in.Key)) ELSE [bytes |-> Nil, err |-> FALSE]
      v == IF in.Value # Nil THEN Encode(Deref(in.Value)) ELSE [bytes |-> Nil, err |-> FALSE]
  IN IF in.Key # Nil /\ k.err
       THEN [p |-> p, errors |-> returnError(errChan, Ptr(in), ErrEncode)]
       ELSE IF in.Value # Nil /\ v.err
         THEN [p |-> p, errors |-> returnError(errChan, Ptr(in), ErrEncode)]
         ELSE
           LET q == IF p.count = Len(p.buf) THEN resize(p) ELSE p
               e == [in |-> Ptr(in),
                     out |-> Ptr([Codec |-> "CompressionNone", Key |-> k.bytes, Value |-> v.bytes]),
                     retries |-> 0]
           IN [p |-> [q EXCEPT !.buf[q.tail + 1] = e,
                               !.tail = (q.tail + 1) % Len(q.buf),
                               !.count = q.count + 1],
               errors |-> errChan]

\* Mutant: the drafted entry is taken out of the buffer.
next_consume(p) ==
  [p |-> [p EXCEPT !.buf[p.head + 1] = ZeroEntry,
                   !.head = (p.head + 1) % Len(p.buf),
                   !.count = p.count - 1],
   msg |-> p.buf[p.head + 1].out, panic |-> FALSE]

\* next(): the message under the cursor; "panic" when the index is out of range.
next(p) ==
  LET i == GoMod(p.head + p.cur, Len(p.buf))
  IN IF i < 0
       THEN [p |-> p, msg |-> Nil, panic |-> TRUE]
       ELSE [p |-> [p EXCEPT !.cur = p.cur + 1], msg |-> p.buf[i + 1].out, panic |-> FALSE]

\* Mutant: the array is shrunk whenever a quarter or less of it is in use.
shrink_belowQuarter(p) ==
  IF Len(p.buf) > minQueueLen /\ p.count * 4 <= Len(p.buf) THEN resize(p) ELSE p

\* The shrink check shared by the three mark operations.
shrink(p) ==
  IF Len(p.buf) > minQueueLen /\ p.count * 4 = Len(p.buf) THEN resize(p) ELSE p

\* One iteration of a removal loop: the head slot is cleared and head advances.
popHead(p) ==
  [p EXCEPT !.buf[p.head + 1].in = Nil,
            !.buf[p.head + 1].out = Nil,
            !.head = (p.head + 1) % Len(p.buf)]

RECURSIVE successLoop(_, _, _, _)
successLoop(p, i, retSucc, succChan) ==
  IF i = 0 THEN [p |-> p, successes |-> succChan]
  ELSE successLoop(popHead(p), i - 1, retSucc,
                   IF retSucc THEN Append(succChan, Ptr(clear(Deref(p.buf[p.head + 1].in))))
                              ELSE succChan)

\* Mutant: the live count is not decreased.
markSuccess_keepCount(p, n, retSucc, succChan) ==
  LET r == successLoop(p, n, retSucc, succChan)
  IN [p |-> shrink([r.p EXCEPT !.cur = p.cur - n]), successes |-> r.successes]

markSuccess(p, n, retSucc, succChan) ==
  LET r == successLoop(p, n, retSucc, succChan)
  IN [p |-> shrink([r.p EXCEPT !.count = p.count - n, !.cur = p.cur - n]),
      successes |-> r.successes]

RECURSIVE errorLoop(_, _, _, _)
errorLoop(p, i, err, errChan) ==
  IF i = 0 THEN [p |-> p, errors |-> errChan]
  ELSE errorLoop(popHead(p), i - 1, err, returnError(errChan, p.buf[p.head + 1].in, err))

\* Mutant: the counters incremented are those of the slots one past the batch's.
RECURSIVE retryLoop_shifted(_, _, _, _, _)
retryLoop_shifted(buf, c, i, retryMax, abandoned) ==
  IF i = 0 THEN [buf |-> buf, abandoned |-> abandoned]
  ELSE retryLoop_shifted([buf EXCEPT ![((c + 1) % Len(buf)) + 1].retries = @ + 1],
                         (c + 1) % Len(buf), i - 1, retryMax,
                         IF buf[((c + 1) % Len(buf)) + 1].retries + 1 = retryMax
                           THEN abandoned + 1 ELSE abandoned)

\* Mutant: an entry counts as abandoned only once its counter is past Retry.Max.
RECURSIVE retryLoop_late(_, _, _, _, _)
retryLoop_late(buf, c, i, retryMax, abandoned) ==
  IF i = 0 THEN [buf |-> buf, abandoned |-> abandoned]
  ELSE retryLoop_late([buf EXCEPT ![c + 1].retries = @ + 1],
                      (c + 1) % Len(buf), i - 1, retryMax,
                      IF buf[c + 1].retries + 1 = retryMax + 1 THEN abandoned + 1 ELSE abandoned)

\* The first loop of markFailure: retries++ on n slots from head; counts the
\* slots whose counter reaches Retry.Max.
RECURSIVE retryLoop(_, _, _, _, _)
retryLoop(buf, c, i, retryMax, abandoned) ==
  IF i = 0 THEN [buf |-> buf, abandoned |-> abandoned]
  ELSE retryLoop([buf EXCEPT ![c + 1].retries = @ + 1],
                 (c + 1) % Len(buf), i - 1, retryMax,
                 IF buf[c + 1].retries + 1 = retryMax THEN abandoned + 1 ELSE abandoned)

\* Mutant: the failed batch is taken to be the newest n entries, and the
\* abandoned entries are dropped from the tail.
RECURSIVE dropTailLoop(_, _, _, _)
dropTailLoop(p, i, err, errChan) ==
  IF i = 0 THEN [p |-> p, errors |-> errChan]
  ELSE LET t == (p.tail + Len(p.buf) - 1) % Len(p.buf)
       IN dropTailLoop([p EXCEPT !.buf[t + 1].in = Nil, !.buf[t + 1].out = Nil, !.tail = t],
                       i - 1, err, returnError(errChan, p.buf[t + 1].in, err))

markFailure_newest(p, n, err, retryMax, errChan) ==
  LET r1 == retryLoop(p.buf, (p.head + p.count - n) % Len(p.buf), n, retryMax, 0)
      r2 == dropTailLoop([p EXCEPT !.buf = r1.buf], r1.abandoned, err, errChan)
  IN [p |-> shrink([r2.p EXCEPT !.count = p.count - r1.abandoned,
                                !.cur = p.cur - r1.abandoned]),
      errors |-> r2.errors]

\* Mutant: the entries that stay are drafted again from the head.
markFailure_redraft(p, n, err, retryMax, errChan) ==
  LET r1 == retryLoop(p.buf, p.head, n, retryMax, 0)
      r2 == errorLoop([p EXCEPT !.buf = r1.buf], r1.abandoned, err, errChan)
  IN [p |-> shrink([r2.p EXCEPT !.count = p.count - r1.abandoned, !.cur = 0]),
      errors |-> r2.errors]

markFailure(p, n, err, retryMax, errChan) ==
  LET r1 == retryLoop(p.buf, p.head, n, retryMax, 0)
      r2 == errorLoop([p EXCEPT !.buf = r1.buf], r1.abandoned, err, errChan)
  IN [p |-> shrink([r2.p EXCEPT !.count = p.count - r1.abandoned,
                                !.cur = p.cur - r1.abandoned]),
      errors |-> r2.errors]

\* Mutant: the entries are removed without being handed to the error path.
markImmediateFailure_silent(p, n, err, errChan) ==
  LET r == errorLoop(p, n, err, errChan)
  IN [p |-> shrink([r.p EXCEPT !.count = p.count - n, !.cur = p.cur - n]),
      errors |-> errChan]

\* Mutant: the cursor is not moved back.
markImmediateFailure_keepCur(p, n, err, errChan) ==
  LET r == errorLoop(p, n, err, errChan)
  IN [p |-> shrink([r.p EXCEPT !.count = p.count - n]), errors |-> r.errors]

markImmediateFailure(p, n, err, errChan) ==
  LET r == errorLoop(p, n, err, errChan)
  IN [p |-> shrink([r.p EXCEPT !.count = p.count - n, !.cur = p.cur - n]),
      errors |-> r.errors]

\* ------------------------------------------------------- the wire codec
\* Bytes are numbers 0..255; a Go string is the sequence of its bytes.

\* The w big-endian bytes of the two's complement of v (w <= 4).
IntBytes(v, w) ==
  LET u == IF v >= 0 THEN v ELSE (0 - v) - 1
  IN [i \in 1..w |-> IF v >= 0 THEN (u \div (256 ^ (w - i))) % 256
                               ELSE 255 - ((u \div (256 ^ (w - i))) % 256)]

\* The signed number whose big-endian two's complement is the byte sequence b.
RECURSIVE Unsigned(_)
Unsigned(b) == IF b = <<>> THEN 0 ELSE Unsigned(SubSeq(b, 1, Len(b) - 1)) * 256 + b[Len(b)]
BytesInt(b) ==
  IF b[1] < 128 THEN Unsigned(b)
  ELSE 0 - Unsigned([i \in 1..Len(b) |-> 255 - b[i]]) - 1

\* packetEncoder: the bytes written so far and the stack of pushed length fields.
NewEncoder == [raw |-> <<>>, stack |-> <<>>]
putInt8(pe, v) == [pe EXCEPT !.raw = @ \o IntBytes(v, 1)]
putInt16(pe, v) == [pe EXCEPT !.raw = @ \o IntBytes(v, 2)]
putInt32(pe, v) == [pe EXCEPT !.raw = @ \o IntBytes(v, 4)]
putArrayLength(pe, n) == putInt32(pe, n)
putString(pe, str) == [pe EXCEPT !.raw = @ \o IntBytes(Len(str), 2) \o str]
putBytes(pe, b) ==
  IF b = Nil THEN putInt32(pe, 0 - 1)
  ELSE [pe EXCEPT !.raw = @ \o IntBytes(Len(Deref(b)), 4) \o Deref(b)]

\* push(&lengthField{}): reserves four bytes; pop() patches them with the
\* number of bytes written since.
push(pe) == [raw |-> pe.raw \o <<0, 0, 0, 0>>, stack |-> Append(pe.stack, Len(pe.raw))]
pop(pe) ==
  LET off == pe.stack[Len(pe.stack)]
      len == IntBytes(Len(pe.raw) - off - 4, 4)
  IN [raw |-> [i \in 1..Len(pe.raw) |->
                 IF i > off /\ i <= off + 4 THEN len[i - off] ELSE pe.raw[i]],
      stack |-> SubSeq(pe.stack, 1, Len(pe.stack) - 1)]

\* The compression codec tag of a Message.
CodecTag(c) == CASE c = "CompressionNone" -> 0 [] c = "CompressionGZIP" -> 1 [] OTHER -> 2
TagCodec(t) == CASE t = 0 -> "CompressionNone" [] t = 1 -> "CompressionGZIP" [] OTHER -> "CompressionSnappy"

\* Message.encode: codec tag, key, value.
encodeMessage(pe, m) == putBytes(putBytes(putInt8(pe, CodecTag(m.Codec)), m.Key), m.Value)

\* MessageSet.encode: every message in order, each behind its length field.
RECURSIVE encodeSet(_, _, _)
encodeSet(pe, set, i) ==
  IF i > Len(set.Messages) THEN pe
  ELSE encodeSet(pop(encodeMessage(push(pe), set.Messages[i].Msg)), set, i + 1)

\* MessageSet.addMessage
addMessage(set, msg) == [set EXCEPT !.Messages = Append(@, [Msg |-> msg])]

\* A Go map is a function; the nil map and the empty map read alike.
EmptyMap == [x \in {} |-> Nil]
MapPut(m, k, v) == [x \in (DOMAIN m) \cup {k} |-> IF x = k THEN v ELSE m[x]]

\* The orders in which a range loop can visit the keys of a map.
Perms(S) == {f \in [1..Cardinality(S) -> S] : \A i, j \in 1..Cardinality(S) : f[i] = f[j] => i = j}
PartOrders(m) ==
  {f \in [DOMAIN m -> UNION {Perms(DOMAIN m[t]) : t \in DOMAIN m}] :
     \A t \in DOMAIN m : f[t] \in Perms(DOMAIN m[t])}

\* The loop over the partitions of one topic (lines 87-116), in the order ids.
RECURSIVE encodePartitions(_, _, _, _)
encodePartitions(pe, partitions, ids, j) ==
  IF j > Len(ids) THEN pe
  ELSE encodePartitions(pop(encodeSet(push(putInt32(pe, ids[j])), partitions[ids[j]], 1)),
                        partitions, ids, j + 1)

\* The loop over the topics (lines 77-121), in the order topics.
RECURSIVE encodeTopics(_, _, _, _, _)
encodeTopics(pe, msgSets, topics, porder, i) ==
  IF i > Len(topics) THEN pe
  ELSE LET topic      == topics[i]
           partitions == msgSets[topic]
           pe1 == putArrayLength(putString(pe, topic), Cardinality(DOMAIN partitions))
       IN encodeTopics(encodePartitions(pe1, partitions, porder[topic], 1),
                       msgSets, topics, porder, i + 1)

\* Mutant: the partition array of every topic is given the number of topics as its length.
encode_topicCount(r, torder, porder) ==
  LET pe == putArrayLength(putInt32(putInt16(NewEncoder, r.RequiredAcks), r.Timeout),
                           Cardinality(DOMAIN r.msgSets))
      RECURSIVE topicsLoop(_, _)
      topicsLoop(q, i) ==
        IF i > Len(torder) THEN q
        ELSE topicsLoop(encodePartitions(
                          putArrayLength(putString(q, torder[i]), Cardinality(DOMAIN r.msgSets)),
                          r.msgSets[torder[i]], porder[torder[i]], 1), i + 1)
  IN topicsLoop(pe, 1).raw

\* ProduceRequest.encode, the maps ranged over in the orders torder and porder.
encode(r, torder, porder) ==
  LET pe == putArrayLength(putInt32(putInt16(NewEncoder, r.RequiredAcks), r.Timeout),
                           Cardinality(DOMAIN r.msgSets))
  IN encodeTopics(pe, r.msgSets, torder, porder, 1).raw

\* packetDecoder: the bytes, the read offset and the end of the view.
NewDecoder(raw) == [raw |-> raw, off |-> 0, end |-> Len(raw)]
remaining(pd) == pd.end - pd.off
getInt(pd, w) ==
  IF remaining(pd) < w THEN [err |-> TRUE, val |-> 0, pd |-> pd]
  ELSE [err |-> FALSE, val |-> BytesInt(SubSeq(pd.raw, pd.off + 1, pd.off + w)),
        pd |-> [pd EXCEPT !.off = @ + w]]
getInt8(pd) == getInt(pd, 1)
getInt16(pd) == getInt(pd, 2)
getInt32(pd) == getInt(pd, 4)
getArrayLength(pd) ==
  LET n == getInt32(pd)
  IN IF n.err \/ n.val < 0 \/ n.val > remaining(n.pd) THEN [n EXCEPT !.err = TRUE] ELSE n
getString(pd) ==
  LET n == getInt16(pd)
  IN IF n.err \/ n.val < 0 \/ n.val > remaining(n.pd) THEN [err |-> TRUE, val |-> <<>>, pd |-> pd]
     ELSE [err |-> FALSE, val |-> SubSeq(n.pd.raw, n.pd.off + 1, n.pd.off + n.val),
           pd |-> [n.pd EXCEPT !.off = @ + n.val]]
getBytes(pd) ==
  LET n == getInt32(pd)
  IN IF n.err \/ n.val < 0 - 1 \/ n.val > remaining(n.pd) THEN [err |-> TRUE, val |-> Nil, pd |-> pd]
     ELSE IF n.val = 0 - 1 THEN [err |-> FALSE, val |-> Nil, pd |-> n.pd]
     ELSE [err |-> FALSE, val |-> Bytes(SubSeq(n.pd.raw, n.pd.off + 1, n.pd.off + n.val)),
           pd |-> [n.pd EXCEPT !.off = @ + n.val]]
\* getSubset(n): a view of the next n bytes, and the decoder behind them.
getSubset(pd, n) ==
  IF n < 0 \/ n > remaining(pd) THEN [err |-> TRUE, val |-> pd, pd |-> pd]
  ELSE [err |-> FALSE, val |-> [pd EXCEPT !.end = pd.off + n], pd |-> [pd EXCEPT !.off = @ + n]]

\* Message.decode
decodeMessage(pd) ==
  LET c == getInt8(pd)
      k == getBytes(c.pd)
      v == getBytes(k.pd)
  IN [err |-> c.err \/ k.err \/ v.err \/ remaining(v.pd) # 0,
      val |-> [Codec |-> TagCodec(c.val), Key |-> k.val, Value |-> v.val]]

\* MessageSet.decode: messages until the view is used up.
RECURSIVE decodeSet(_, _)
decodeSet(pd, set) ==
  IF remaining(pd) = 0 THEN [err |-> FALSE, val |-> set]
  ELSE LET n   == getInt32(pd)
           sub == getSubset(n.pd, n.val)
           m   == decodeMessage(sub.val)
       IN IF n.err \/ sub.err \/ m.err THEN [err |-> TRUE, val |-> set]
          ELSE decodeSet(sub.pd, addMessage(set, m.val))

NewMessageSet == [Messages |-> <<>>]
\* The zero ProduceRequest; made tells whether r.msgSets is a map that was
\* made (a nil map reads as empty, and a write to it panics).
NewRequest ==
  [RequiredAcks |-> 0, Timeout |-> 0, Version |-> 0, msgSets |-> EmptyMap, made |-> FALSE]

\* The loop over the partitions of one topic (lines 153-172).
RECURSIVE decodePartitions(_, _, _)
decodePartitions(pd, j, parts) ==
  IF j = 0 THEN [err |-> FALSE, val |-> parts, pd |-> pd]
  ELSE LET partition      == getInt32(pd)
           messageSetSize == getInt32(partition.pd)
           msgSetDecoder  == getSubset(messageSetSize.pd, messageSetSize.val)
           msgSet         == decodeSet(msgSetDecoder.val, NewMessageSet)
       IN IF partition.err \/ messageSetSize.err \/ msgSetDecoder.err \/ msgSet.err
            THEN [err |-> TRUE, val |-> parts, pd |-> pd]
            ELSE decodePartitions(msgSetDecoder.pd, j - 1, MapPut(parts, partition.val, msgSet.val))

\* The loop over the topics (lines 143-173).
RECURSIVE decodeTopics(_, _, _)
decodeTopics(pd, i, msgSets) ==
  IF i = 0 THEN [err |-> FALSE, val |-> msgSets]
  ELSE LET topic          == getString(pd)
           partitionCount == getArrayLength(topic.pd)
           parts          == decodePartitions(partitionCount.pd, partitionCount.val, EmptyMap)
       IN IF topic.err \/ partitionCount.err
            THEN [err |-> TRUE, val |-> msgSets]
            ELSE IF parts.err
              THEN [err |-> TRUE, val |-> MapPut(msgSets, topic.val, parts.val)]
              ELSE decodeTopics(parts.pd, i - 1, MapPut(msgSets, topic.val, parts.val))

\* ProduceRequest.decode into the request r: the error and the request as it is left.
decode(r, raw, version) ==
  LET requiredAcks == getInt16(NewDecoder(raw))
      timeout      == getInt32(requiredAcks.pd)
      topicCount   == getArrayLength(timeout.pd)
      r1 == [r EXCEPT !.RequiredAcks = requiredAcks.val]
      r2 == [r1 EXCEPT !.Timeout = timeout.val]
      topics == decodeTopics(topicCount.pd, topicCount.val, EmptyMap)
  IN IF requiredAcks.err THEN [err |-> TRUE, r |-> r]
     ELSE IF timeout.err THEN [err |-> TRUE, r |-> r2]
     ELSE IF topicCount.err THEN [err |-> TRUE, r |-> r2]
     ELSE IF topicCount.val = 0 THEN [err |-> FALSE, r |-> r2]
     ELSE [err |-> topics.err, r |-> [r2 EXCEPT !.msgSets = topics.val, !.made = TRUE]]

\* r.msgSets[topic] = parts: the request, and whether the write panicked.
PutTopic(r, topic, parts) ==
  IF r.made THEN [r |-> [r EXCEPT !.msgSets = MapPut(@, topic, parts)], panic |-> FALSE]
            ELSE [r |-> r, panic |-> TRUE]

\* Lines 197-203 and 216-222: the topic map, then the topic's partition map,
\* are made when missing.
MakeMaps(r, topic) ==
  LET r1 == IF r.made THEN r ELSE [r EXCEPT !.made = TRUE]
  IN IF topic \in DOMAIN r1.msgSets THEN [r |-> r1, panic |-> FALSE]
     ELSE PutTopic(r1, topic, EmptyMap)

\* Mutant: the topic map is not made when it is nil.
AddMessageTo_noMake(r, topic, partition, msg) ==
  LET a == IF topic \in DOMAIN r.msgSets THEN [r |-> r, panic |-> FALSE]
           ELSE PutTopic(r, topic, EmptyMap)
  IN IF a.panic THEN a
     ELSE LET parts == a.r.msgSets[topic]
              set   == IF partition \in DOMAIN parts THEN parts[partition] ELSE NewMessageSet
          IN [r |-> [a.r EXCEPT !.msgSets[topic] = MapPut(parts, partition, addMessage(set, msg))],
              panic |-> FALSE]

\* ProduceRequest.AddMessage: the request, and whether the call panicked.
AddMessageTo(r, topic, partition, msg) ==
  LET a == MakeMaps(r, topic)
  IN IF a.panic THEN a
     ELSE LET parts == a.r.msgSets[topic]
              set   == IF partition \in DOMAIN parts THEN parts[partition] ELSE NewMessageSet
          IN [r |-> [a.r EXCEPT !.msgSets[topic] = MapPut(parts, partition, addMessage(set, msg))],
              panic |-> FALSE]

\* ProduceRequest.AddSet: the request, and whether the call panicked.
AddSetTo(r, topic, partition, set) ==
  LET a == MakeMaps(r, topic)
  IN IF a.panic THEN a
     ELSE [r |-> [a.r EXCEPT !.msgSets[topic] = MapPut(a.r.msgSets[topic], partition, set)],
           panic |-> FALSE]

\* -------------------------------------------------------------------- state
VARIABLES
  buf, head, tail, count, cur,   \* producerPartitionBuffer
  conf,                          \* parent.conf.Producer: [ReturnSuccesses, RetryMax]
  errors, successes,             \* what the last operation sent on parent.errors / parent.successes
  ret,                           \* what the last next() returned
  pc,                            \* "run", or "panic" once an operation panicked
  nextId,                        \* identity of the next ProducerMessage handed to add
  term,                          \* term[id]: how many times message id reached a terminal state
  last,                          \* the last operation, its arguments and whether it resized
  trace,                         \* whether the channel consumers and the caller keep what the last operation gave them
  undrafted,                     \* whether a mark operation was ever given more entries than were drafted (n > cur)
  nfail, nbad,                   \* budget counters of the explored environment
  req,                           \* the ProduceRequest being built
  wire,                          \* Nil, or Ptr of the bytes encode wrote for req
  dec,                           \* Nil, or Ptr of the result of decoding wire into a fresh ProduceRequest
  chan                           \* the markSuccess call in progress and the consumer of parent.successes

vars == <<buf, head, tail, count, cur, conf, errors, successes, ret, pc, nextId, term, last, trace, undrafted, nfail, nbad, req, wire, dec, chan>>

P == [buf |-> buf, head |-> head, tail |-> tail, count |-> count, cur |-> cur]

SetP(p) ==
  /\ buf' = p.buf
  /\ head' = p.head
  /\ tail' = p.tail
  /\ count' = p.count
  /\ cur' = p.cur

\* The live entries, oldest first, as the buffer value p holds them.
LiveOf(p) == [i \in 1..p.count |-> p.buf[GoMod(p.head + i - 1, Len(p.buf)) + 1]]
Live == LiveOf(P)

\* Identity of the message an entry points to (0 for a nil pointer).
IdOf(in) == IF in = Nil THEN 0 ELSE Deref(in).id

\* term with every message of the sequence of pointers ins marked once more.
RECURSIVE Terminate(_, _)
Terminate(t, ins) ==
  IF ins = <<>> THEN t
  ELSE Terminate(IF IdOf(Head(ins)) \in DOMAIN t
                   THEN [t EXCEPT ![IdOf(Head(ins))] = @ + 1] ELSE t,
                 Tail(ins))

\* The encoders of the messages the environment submits.
GoodEncoder(id) == Ptr([bytes |-> Bytes(<<id>>), fails |-> FALSE])
BadEncoder(id) == Ptr([bytes |-> Bytes(<<id>>), fails |-> TRUE])

NoOp == [op |-> "", n |-> 0, err |-> "", resized |-> "no", wrapped |-> FALSE]

\* The record of an operation; the operation and its arguments are kept only when tracing.
Note(op, n, err, rs, wr) ==
  IF trace THEN [op |-> op, n |-> n, err |-> err, resized |-> rs, wrapped |-> (rs # "no" /\ wr)]
           ELSE [op |-> "", n |-> 0, err |-> "", resized |-> rs, wrapped |-> (rs # "no" /\ wr)]

\* What a consumer of a channel (or the caller of next) holds after the operation.
Kept(x, none) == IF trace THEN x ELSE none

Resized(p, q) ==
  IF Len(q.buf) > Len(p.buf) THEN "grow" ELSE IF Len(q.buf) < Len(p.buf) THEN "shrink" ELSE "no"

\* No markSuccess call is in progress and the consumer is not at its receive.
\* n: the argument; i: the loop index; pre: the entries live when the call
\* began; offer: the message the owner is blocked sending; got: what the
\* consumer received during the call; ready: the consumer is at its receive;
\* done: the call returned.
NoCall == [n |-> 0, i |-> 0, pre |-> <<>>, offer |-> Nil, got |-> <<>>, ready |-> FALSE, done |-> FALSE]

InitBuffer ==
  /\ buf = newPPB.buf
  /\ head = newPPB.head
  /\ tail = newPPB.tail
  /\ count = newPPB.count
  /\ cur = newPPB.cur
  /\ errors = <<>>
  /\ successes = <<>>
  /\ ret = Nil
  /\ pc = "run"
  /\ nextId = 1
  /\ term = <<>>
  /\ last = NoOp
  /\ undrafted = FALSE
  /\ nfail = 0
  /\ nbad = 0
  /\ chan = NoCall

\* No request is being built.
NoRequest ==
  /\ req = NewRequest
  /\ wire = Nil
  /\ dec = Nil


\* ------------------------------------------------------------------ actions
\* Every action is one call of a method of the buffer by its owner task. The
\* parameters are the environment's: how many calls it makes and the batch
\* sizes it passes.
DoAdd(pm) ==
  LET r == add(P, pm, <<>>)
  IN /\ SetP(r.p)
     /\ errors' = Kept(r.errors, <<>>)
     /\ successes' = <<>>
     /\ ret' = Nil
     /\ nextId' = nextId + 1
     /\ term' = Terminate(Append(term, 0), [i \in 1..Len(r.errors) |-> r.errors[i].Msg])
     /\ last' = Note("add", 1, "", Resized(P, r.p), head # 0)
     /\ UNCHANGED <<conf, pc, trace, undrafted, req, wire, dec, chan>>

Add(limit) ==
  /\ pc = "run"
  /\ ~full(P)
  /\ nextId <= limit
  /\ DoAdd([id |-> nextId, Key |-> Nil, Value |-> GoodEncoder(nextId)])
  /\ UNCHANGED <<nbad, nfail>>

AddBad(limit, budget) ==
  /\ pc = "run"
  /\ ~full(P)
  /\ nextId <= limit
  /\ nbad < budget
  /\ \E pm \in {[id |-> nextId, Key |-> BadEncoder(nextId), Value |-> GoodEncoder(nextId)],
                [id |-> nextId, Key |-> Nil, Value |-> BadEncoder(nextId)]} : DoAdd(pm)
  /\ nbad' = nbad + 1
  /\ UNCHANGED nfail

NextMsg ==
  /\ pc = "run"
  /\ hasNext(P)
  /\ LET r == next(P)
     IN /\ SetP(r.p)
        /\ ret' = Kept(r.msg, Nil)
        /\ pc' = IF r.panic THEN "panic" ELSE pc
  /\ errors' = <<>>
  /\ successes' = <<>>
  /\ last' = Note("next", 1, "", "no", FALSE)
  /\ UNCHANGED <<conf, nextId, term, trace, nfail, nbad, undrafted, req, wire, dec, chan>>

MarkSuccess(N) ==
  /\ pc = "run"
  /\ \E n \in N :
       LET r    == markSuccess(P, n, conf.ReturnSuccesses, <<>>)
           gone == [i \in 1..n |-> Live[i].in]
       IN /\ SetP(r.p)
          /\ successes' = Kept(r.successes, <<>>)
          /\ term' = Terminate(term, gone)
          /\ last' = Note("markSuccess", n, "", Resized(P, r.p), (head + n) % Len(buf) >= tail)
          /\ undrafted' = (undrafted \/ n > cur)
  /\ errors' = <<>>
  /\ ret' = Nil
  /\ UNCHANGED <<conf, pc, nextId, trace, nfail, nbad, req, wire, dec, chan>>

MarkFailure(N, counted) ==
  /\ pc = "run"
  /\ \E n \in N, err \in Errs :
       LET r == markFailure(P, n, err, conf.RetryMax, <<>>)
       IN /\ SetP(r.p)
          /\ errors' = Kept(r.errors, <<>>)
          /\ term' = Terminate(term, [i \in 1..Len(r.errors) |-> r.errors[i].Msg])
          /\ last' = Note("markFailure", n, err, Resized(P, r.p),
                          (head + Len(r.errors)) % Len(buf) >= tail)
          /\ undrafted' = (undrafted \/ n > cur)
  /\ successes' = <<>>
  /\ ret' = Nil
  /\ nfail' = IF counted THEN nfail + 1 ELSE nfail
  /\ UNCHANGED <<conf, pc, nextId, trace, nbad, req, wire, dec, chan>>

MarkImmediateFailure(N) ==
  /\ pc = "run"
  /\ \E n \in N, err \in Errs :
       LET r == markImmediateFailure(P, n, err, <<>>)
       IN /\ SetP(r.p)
          /\ errors' = Kept(r.errors, <<>>)
          /\ term' = Terminate(term, [i \in 1..Len(r.errors) |-> r.errors[i].Msg])
          /\ last' = Note("markImmediateFailure", n, err, Resized(P, r.p),
                          (head + n) % Len(buf) >= tail)
          /\ undrafted' = (undrafted \/ n > cur)
  /\ successes' = <<>>
  /\ ret' = Nil
  /\ UNCHANGED <<conf, pc, nextId, trace, nfail, nbad, req, wire, dec, chan>>

\* The owner task with every operation, any batch size up to the live count,
\* every configuration, and consumers that keep what they receive.
Init ==
  /\ InitBuffer
  /\ NoRequest
  /\ trace = TRUE
  /\ conf \in [ReturnSuccesses : BOOLEAN, RetryMax : 0..MaxRetryMax]

AnyBatch == 0..count

Next ==
  \/ Add(MaxAdds)
  \/ AddBad(MaxAdds, MaxBadAdds)
  \/ NextMsg
  \/ MarkSuccess(AnyBatch)
  \/ (nfail < MaxFails /\ MarkFailure(AnyBatch, TRUE))
  \/ MarkImmediateFailure(AnyBatch)

Spec == Init /\ [][Next]_vars

\* The free-running owner task: any operation, any batch size up to the live
\* count. Retryable failures arrive once the input is exhausted.
InitGrow ==
  /\ InitBuffer
  /\ NoRequest
  /\ trace = FALSE
  /\ conf = [ReturnSuccesses |-> TRUE, RetryMax |-> 1]

GrowBatch == 0..Min(count, MaxBatch)

NextGrow ==
  \/ Add(GrowAdds)
  \/ NextMsg
  \/ MarkSuccess(GrowBatch)
  \/ (nextId > GrowAdds /\ nfail < GrowFails /\ MarkFailure(GrowBatch, TRUE))
  \/ MarkImmediateFailure(GrowBatch)

SpecGrow == InitGrow /\ [][NextGrow]_vars

\* The owner task of a producer that resolves what it drafted: every response
\* covers the whole drafted batch (n = cur), or nothing.
DraftedBatch == {n \in {0, cur} : 0 <= n /\ n <= count}

InitDeep ==
  /\ InitBuffer
  /\ NoRequest
  /\ trace = FALSE
  /\ conf = [ReturnSuccesses |-> TRUE, RetryMax |-> 1]

NextDeep ==
  \/ Add(DeepAdds)
  \/ NextMsg
  \/ MarkSuccess(DraftedBatch)
  \/ MarkImmediateFailure(DraftedBatch)

SpecDeep == InitDeep /\ [][NextDeep]_vars

\* The owner task of a producer that retries: every response covers the whole
\* drafted batch (n = cur) or nothing, and is a success, a retryable failure
\* or a fatal failure; retryable failures arrive once the input is exhausted,
\* for a request that drafted every pending entry but possibly the newest.
\* A message that cannot be encoded is submitted only while the array is
\* completely full. Retry.Max is 0 (never abandon) or 2.
InitRetry ==
  /\ InitBuffer
  /\ NoRequest
  /\ trace = FALSE
  /\ conf \in {[ReturnSuccesses |-> FALSE, RetryMax |-> r] : r \in {0, 2}}

NextRetry ==
  \/ Add(RetryAdds)
  \/ (count = Len(buf) /\ AddBad(RetryAdds, MaxBadAdds))
  \/ NextMsg
  \/ MarkSuccess(DraftedBatch)
  \/ (nextId > RetryAdds /\ nfail < RetryFails /\ count - cur <= 1 /\ MarkFailure(DraftedBatch, TRUE))
  \/ MarkImmediateFailure(DraftedBatch)

SpecRetry == InitRetry /\ [][NextRetry]_vars

\* The scenario of TestPPBSuccess: add; hasNext; next; markSuccess(1), repeated.
\* At any round the response may instead be a retryable failure of the single
\* pending entry, repeated until the entry is abandoned. A failure is injected
\* only while no slot carries the retry count of an earlier failed entry.
InitCycle ==
  /\ InitBuffer
  /\ NoRequest
  /\ trace = TRUE
  /\ conf \in [ReturnSuccesses : BOOLEAN, RetryMax : 0..MaxRetryMax]

CycleAdd ==
  /\ count = 0
  /\ pc = "run"
  /\ ~full(P)
  /\ nextId <= CycleAdds
  /\ DoAdd([id |-> nextId, Key |-> Nil, Value |-> GoodEncoder(nextId)])
  /\ nfail' = 0
  /\ UNCHANGED nbad

CycleNext ==
  /\ last.op = "add"
  /\ NextMsg

CycleSuccess ==
  /\ last.op \in {"next", "markFailure"}
  /\ count = 1
  /\ MarkSuccess({1})

CycleFailure ==
  /\ last.op \in {"next", "markFailure"}
  /\ count = 1
  /\ nfail < Max(conf.RetryMax, CycleFails)
  /\ \A i \in 1..Len(buf) : buf[i].in = Nil => buf[i].retries = 0
  /\ MarkFailure({1}, TRUE)

NextCycle ==
  \/ CycleAdd
  \/ CycleNext
  \/ CycleSuccess
  \/ CycleFailure

SpecCycle == InitCycle /\ [][NextCycle]_vars

\* Backpressure: the owner task adds while full() is false, and resolves
\* entries only once the buffer is full.
InitFull ==
  /\ InitBuffer
  /\ NoRequest
  /\ trace = FALSE
  /\ conf = [ReturnSuccesses |-> FALSE, RetryMax |-> 1]

NextFull ==
  \/ Add(maxBuffer + FullSlack)
  \/ (full(P) /\ MarkSuccess({1, 2}))
  \/ (full(P) /\ MarkImmediateFailure({1}))

SpecFull == InitFull /\ [][NextFull]_vars


\* ------------------------------------------- markSuccess and its consumer
\* markSuccess(n) step by step, against the task that receives from the
\* unbuffered parent.successes channel. The owner task is at "run" between
\* operations, at "markSuccess" at the head of the loop and at "send" while the
\* send of line 89 has not been received.
BeginMarkSuccess ==
  /\ pc = "run"
  /\ \E n \in 0..count :
       chan' = [n |-> n, i |-> 0, pre |-> [k \in 1..count |-> Live[k].in], offer |-> Nil,
                got |-> <<>>, ready |-> chan.ready, done |-> FALSE]
  /\ pc' = "markSuccess"
  /\ UNCHANGED <<buf, head, tail, count, cur, conf, errors, successes, ret, nextId, term,
                 last, trace, undrafted, nfail, nbad, req, wire, dec>>

\* Mutant: the send does not wait: a message the consumer is not ready for is dropped.
SuccessLoop_nonBlocking ==
  /\ pc = "markSuccess"
  /\ IF chan.i < chan.n
       THEN /\ SetP(popHead(P))
            /\ chan' = [chan EXCEPT !.i = @ + 1,
                                    !.got = IF conf.ReturnSuccesses /\ chan.ready
                                              THEN Append(@, Ptr(clear(Deref(buf[head + 1].in))))
                                              ELSE @,
                                    !.ready = FALSE]
            /\ UNCHANGED <<pc, term>>
       ELSE /\ SetP(shrink([P EXCEPT !.count = count - chan.n, !.cur = cur - chan.n]))
            /\ chan' = [chan EXCEPT !.done = TRUE]
            /\ pc' = "run"
            /\ term' = Terminate(term, SubSeq(chan.pre, 1, chan.n))
  /\ UNCHANGED <<conf, errors, successes, ret, nextId, last, trace, undrafted, nfail, nbad,
                 req, wire, dec>>

\* One pass of the owner task through the loop of lines 86-94 up to the send,
\* or, after the loop, lines 96-100.
SuccessLoop ==
  /\ pc = "markSuccess"
  /\ IF chan.i < chan.n
       THEN IF conf.ReturnSuccesses
              THEN /\ buf' = [buf EXCEPT ![head + 1].in = Ptr(clear(Deref(@)))]
                   /\ chan' = [chan EXCEPT !.offer = Ptr(clear(Deref(buf[head + 1].in)))]
                   /\ pc' = "send"
                   /\ UNCHANGED <<head, tail, count, cur, term>>
              ELSE /\ SetP(popHead(P))
                   /\ chan' = [chan EXCEPT !.i = @ + 1]
                   /\ UNCHANGED <<pc, term>>
       ELSE /\ SetP(shrink([P EXCEPT !.count = count - chan.n, !.cur = cur - chan.n]))
            /\ chan' = [chan EXCEPT !.done = TRUE]
            /\ pc' = "run"
            /\ term' = Terminate(term, SubSeq(chan.pre, 1, chan.n))
  /\ UNCHANGED <<conf, errors, successes, ret, nextId, last, trace, undrafted, nfail, nbad,
                 req, wire, dec>>

\* The send of line 89 meets the consumer's receive; the owner task goes on
\* through lines 91-93.
ReceiveSuccess ==
  /\ pc = "send"
  /\ chan.ready
  /\ chan' = [chan EXCEPT !.got = Append(@, chan.offer), !.offer = Nil, !.ready = FALSE,
                          !.i = @ + 1]
  /\ SetP(popHead(P))
  /\ pc' = "markSuccess"
  /\ UNCHANGED <<conf, errors, successes, ret, nextId, term, last, trace, undrafted, nfail,
                 nbad, req, wire, dec>>

\* The consumer comes to its receive.
ConsumerReady ==
  /\ ~chan.ready
  /\ chan' = [chan EXCEPT !.ready = TRUE]
  /\ UNCHANGED <<buf, head, tail, count, cur, conf, errors, successes, ret, pc, nextId, term,
                 last, trace, undrafted, nfail, nbad, req, wire, dec>>

InitChan ==
  /\ InitBuffer
  /\ NoRequest
  /\ trace = FALSE
  /\ conf \in {[ReturnSuccesses |-> b, RetryMax |-> 1] : b \in BOOLEAN}

NextChan ==
  \/ Add(ChanAdds)
  \/ NextMsg
  \/ BeginMarkSuccess
  \/ SuccessLoop
  \/ ReceiveSuccess
  \/ ConsumerReady

SpecChan == InitChan /\ [][NextChan]_vars


\* ------------------------------------------------------ the request codec
\* A ProduceRequest is built with AddMessage / AddSet, encoded with the maps
\* ranged over in any order, and the bytes decoded into a fresh request.
Topics == {<<116>>, <<116, 50>>}
Partitions == {0, 7}
Payloads == {Nil, Bytes(<<>>), Bytes(<<1, 2, 3, 4, 5>>)}
CodecMessages ==
  {[Codec |-> "CompressionNone", Key |-> k, Value |-> v] : k \in {Nil, Bytes(<<9>>)}, v \in Payloads}
CodecSets == {NewMessageSet} \cup {addMessage(NewMessageSet, m) : m \in CodecMessages}

BufferIdle ==
  UNCHANGED <<buf, head, tail, count, cur, conf, errors, successes, ret, nextId, term,
              last, trace, undrafted, nfail, nbad, chan>>

InitCodec ==
  /\ InitBuffer
  /\ trace = FALSE
  /\ conf = [ReturnSuccesses |-> FALSE, RetryMax |-> 0]
  /\ req \in {[NewRequest EXCEPT !.RequiredAcks = a, !.Timeout = t, !.Version = v] :
                a \in {0 - 1, 0, 1}, t \in {10, 70000}, v \in 0..2}
  /\ wire = Nil
  /\ dec = Nil

\* The number of messages and sets put into the request so far.
Calls(r) ==
  LET m == r.msgSets
      RECURSIVE Sum(_)
      Sum(S) == IF S = {} THEN 0
                ELSE LET x == CHOOSE y \in S : TRUE
                     IN Max(1, Len(m[x[1]][x[2]].Messages)) + Sum(S \ {x})
  IN Sum({<<t, p>> \in (DOMAIN m) \X Partitions : p \in DOMAIN m[t]})

AddMessage ==
  /\ pc = "run"
  /\ wire = Nil
  /\ Calls(req) < MaxCalls
  /\ \E topic \in Topics, partition \in Partitions, msg \in CodecMessages :
       /\ req' = AddMessageTo(req, topic, partition, msg).r
       /\ pc' = IF AddMessageTo(req, topic, partition, msg).panic THEN "panic" ELSE pc
  /\ UNCHANGED <<wire, dec>>
  /\ BufferIdle

AddSet ==
  /\ pc = "run"
  /\ wire = Nil
  /\ Calls(req) < MaxCalls
  /\ \E topic \in Topics, partition \in Partitions, set \in CodecSets :
       /\ req' = AddSetTo(req, topic, partition, set).r
       /\ pc' = IF AddSetTo(req, topic, partition, set).panic THEN "panic" ELSE pc
  /\ UNCHANGED <<wire, dec>>
  /\ BufferIdle

EncodeRequest ==
  /\ pc = "run"
  /\ wire = Nil
  /\ \E torder \in Perms(DOMAIN req.msgSets), porder \in PartOrders(req.msgSets) :
       wire' = Ptr(encode(req, torder, porder))
  /\ UNCHANGED <<req, dec, pc>>
  /\ BufferIdle

DecodeRequest ==
  /\ pc = "run"
  /\ wire # Nil
  /\ dec = Nil
  /\ dec' = Ptr(decode(NewRequest, Deref(wire), req.Version))
  /\ UNCHANGED <<req, wire, pc>>
  /\ BufferIdle

NextCodec ==
  \/ AddMessage
  \/ AddSet
  \/ EncodeRequest
  \/ DecodeRequest

SpecCodec == InitCodec /\ [][NextCodec]_vars

\* A ProduceRequest being built from the zero request.
InitBuild ==
  /\ InitBuffer
  /\ trace = FALSE
  /\ conf = [ReturnSuccesses |-> FALSE, RetryMax |-> 0]
  /\ NoRequest

NextBuild ==
  \/ AddMessage
  \/ AddSet

SpecBuild == InitBuild /\ [][NextBuild]_vars

\* =================================================================== claims
RECURSIVE SumSeq(_)
SumSeq(q) == IF q = <<>> THEN 0 ELSE Head(q) + SumSeq(Tail(q))

\* How many live entries point to message id.
LiveCount(id) == Cardinality({i \in 1..count : IdOf(Live[i].in) = id})

\* The message add derives from the ProducerMessage with identity id and a good value encoder.
OutOf(id) == Ptr([Codec |-> "CompressionNone", Key |-> Nil, Value |-> Bytes(<<id>>)])

\* C1: no entry is lost or duplicated. In every state the number of messages
\* added equals the number that reached a terminal state plus the number still
\* live, every message added is either live exactly once or terminal exactly
\* once, and no message reaches a terminal state more than once.
C1_NoLossNoDuplication ==
  /\ Len(term) = nextId - 1
  /\ nextId - 1 = SumSeq(term) + count
  /\ \A id \in 1..Len(term) : term[id] <= 1 /\ term[id] + LiveCount(id) = 1

C1_Witness ==
  /\ nextId = MaxAdds + 1
  /\ count >= 1
  /\ last.op = "markFailure"
  /\ errors # <<>>
  /\ \E id \in 1..Len(term) : term[id] = 1 /\ \A k \in 1..Len(errors) : IdOf(errors[k].Msg) # id

\* C2: retry ordering. Whenever markFailure abandons an entry, every older
\* entry that is still pending after the call has been retried at least as
\* many times as the abandoned entry.
C2_RetryOrdering ==
  [][last'.op = "markFailure" =>
       \A k \in 1..Len(errors') : \A j \in 1..count :
         Live[j].in = errors'[k].Msg =>
           \A i \in 1..count' :
             IdOf(Live'[i].in) < IdOf(Live[j].in) => Live'[i].retries >= Live[j].retries + 1]_vars

C2_Witness ==
  /\ last.op = "markFailure"
  /\ last.n >= 2
  /\ Len(errors) = 1
  /\ count >= 1
  /\ conf.RetryMax = 2

\* C3: after any sequence of operations the backing array stays within the
\* 4:1 band, count <= len(buf) <= 4*count, unless it is at the minimum capacity.
C3_OccupancyBand ==
  Len(buf) = minQueueLen \/ (count <= Len(buf) /\ Len(buf) <= 4 * count)

\* The entries of a sequence of ppbMessage without their retry counters.
Msgs(q) == [i \in 1..Len(q) |-> [in |-> q[i].in, out |-> q[i].out]]

\* The live entries hold consecutive messages in the order they were added,
\* each with the Message derived from it.
LiveInOrder ==
  \A i \in 1..count :
    /\ Live[i].in # Nil
    /\ IdOf(Live[i].in) = IdOf(Live[1].in) + i - 1
    /\ Live[i].out = OutOf(IdOf(Live[i].in))

C5_SuccessCycle ==
  /\ last.op = "add" => hasNext(P)
  /\ last.op = "next" => ret # Nil /\ ret = OutOf(nextId - 1)
  /\ last.op = "markSuccess" => count = 0 /\ ~hasNext(P) /\ ~full(P)
  /\ Len(buf) = minQueueLen
  /\ pc = "run"

C5_Witness ==
  /\ last.op = "markSuccess"
  /\ nextId - 1 = 2 * minQueueLen + 3
  /\ head = 3

\* C6: with Retry.Max = R >= 1, repeated markFailure(1, err) on a buffer
\* holding a single pending entry keeps the entry and delivers nothing during
\* the first R-1 calls; the R-th call removes it and delivers it exactly once
\* on the error path, paired with the err of that call.
C6_AbandonAtRetryMax ==
  (conf.RetryMax >= 1 /\ last.op = "markFailure") =>
    /\ nfail <= conf.RetryMax
    /\ nfail < conf.RetryMax =>
         /\ count = 1
         /\ IdOf(Live[1].in) = nextId - 1
         /\ errors = <<>>
         /\ term[nextId - 1] = 0
    /\ nfail = conf.RetryMax =>
         /\ count = 0
         /\ Len(errors) = 1
         /\ IdOf(errors[1].Msg) = nextId - 1
         /\ errors[1].Err = last.err
         /\ term[nextId - 1] = 1

C6_Witness ==
  /\ conf.RetryMax = 2
  /\ last.op = "markFailure"
  /\ nfail = 2
  /\ Len(errors) = 1
  /\ nextId - 1 > minQueueLen

\* C7 as stated: with n no larger than the live-entry count, 0 <= cursor <= count <= capacity.
C7_CursorBounds ==
  /\ 0 <= cur
  /\ cur <= count
  /\ count <= Len(buf)

\* C7 amended: 0 <= cursor <= count <= capacity in every state reached with
\* mark operations whose n is no larger than the number of drafted entries
\* (the cursor).
C7_CursorBoundsDrafted ==
  ~undrafted => C7_CursorBounds

C7_Witness ==
  /\ ~undrafted
  /\ Len(buf) > minQueueLen
  /\ head > 0
  /\ cur >= 1
  /\ cur = count

\* C8: full() is true exactly when the live count equals maxBuffer; with add
\* called only while full() is false the live count never exceeds maxBuffer and
\* the backing array never has more than maxBuffer slots.
C8_BackpressureCeiling ==
  /\ full(P) <=> count = maxBuffer
  /\ count <= maxBuffer
  /\ Len(buf) <= maxBuffer

C8_Witness ==
  /\ full(P)
  /\ Len(buf) = maxBuffer
  /\ nextId - 1 > maxBuffer

\* The topic -> partition -> message key/value pairs of a request.
KeyValues(set) == [i \in 1..Len(set.Messages) |-> <<set.Messages[i].Msg.Key, set.Messages[i].Msg.Value>>]
Pairs(m) == UNION {{<<t, p, KeyValues(m[t][p])>> : p \in DOMAIN m[t]} : t \in DOMAIN m}

\* C9: encode followed by decode is a round trip. Decoding the bytes encode
\* produced, for every version and every iteration order of the maps, succeeds
\* and yields the same RequiredAcks, the same Timeout and the same
\* topic -> partition -> message key/value pairs.
C9_EncodeDecodeRoundTrip ==
  dec # Nil =>
    /\ ~Deref(dec).err
    /\ Deref(dec).r.RequiredAcks = req.RequiredAcks
    /\ Deref(dec).r.Timeout = req.Timeout
    /\ Pairs(Deref(dec).r.msgSets) = Pairs(req.msgSets)

C9_Witness ==
  /\ dec # Nil
  /\ req.RequiredAcks = 0 - 1
  /\ req.Timeout = 70000
  /\ req.Version = 2
  /\ \E t \in DOMAIN req.msgSets :
       /\ Cardinality(DOMAIN req.msgSets[t]) = 2
       /\ \E p \in DOMAIN req.msgSets[t] :
            /\ Len(req.msgSets[t][p].Messages) = 1
            /\ req.msgSets[t][p].Messages[1].Msg.Value = Bytes(<<1, 2, 3, 4, 5>>)
  /\ Deref(wire)[1] = 255

\* C10: after markFailure(n, err) on a drafted batch, every entry of the batch
\* that was not abandoned is drafted again: hasNext() is true and next()
\* returns the oldest remaining entry.
C10_FailedBatchRedrafted ==
  (last.op = "markFailure" /\ ~undrafted /\ last.n > Len(errors)) =>
    /\ count >= last.n - Len(errors)
    /\ hasNext(P)
    /\ next(P).msg = Live[1].out

\* The entries a mark operation with batch size n leaves, oldest first.
Remaining(n) == [i \in 1..(count - n) |-> Live[i + n]]

\* Whether the shrink check fires once n entries are removed.
ShrinksAfter(n) == Len(buf) > minQueueLen /\ (count - n) * 4 = Len(buf)

\* What markImmediateFailure(n, err) does to everything but head.
ImmediateFailureEffect(n, err) ==
  LET r == markImmediateFailure(P, n, err, <<>>)
  IN /\ r.errors = [i \in 1..n |-> [Msg |-> Live[i].in, Err |-> err]]
     /\ r.p.count = count - n
     /\ r.p.cur = cur - n
     /\ LiveOf(r.p) = Remaining(n)

\* C11 as stated: markImmediateFailure(n, err) with n up to the live count
\* hands the oldest n entries, oldest first and once each, to the error path
\* with err, advances head by n modulo the capacity, decreases count and cursor
\* by n and leaves the remaining entries and their retry counters unchanged.
C11_ImmediateFailure ==
  \A n \in 0..count, err \in Errs :
    /\ ImmediateFailureEffect(n, err)
    /\ markImmediateFailure(P, n, err, <<>>).p.head = (head + n) % Len(buf)

\* C11 amended: as C11, but head advances by n modulo the capacity only when
\* the removal does not trigger the shrink; when it does, the remaining
\* entries are compacted and head is 0.
C11_ImmediateFailureOrShrink ==
  \A n \in 0..count, err \in Errs :
    /\ ImmediateFailureEffect(n, err)
    /\ markImmediateFailure(P, n, err, <<>>).p.head =
         IF ShrinksAfter(n) THEN 0 ELSE (head + n) % Len(buf)

C11_Witness ==
  /\ conf.RetryMax = 2
  /\ head > 0
  /\ \E n \in 2..(count - 1) :
       /\ ShrinksAfter(n)
       /\ Live[1].retries = 1
       /\ Live[n + 1].retries = 1
       /\ Live[count].retries = 0

\* The messages whose key or value fails to encode.
Unencodable(id) ==
  {[id |-> id, Key |-> BadEncoder(id), Value |-> GoodEncoder(id)],
   [id |-> id, Key |-> BadEncoder(id), Value |-> Nil],
   [id |-> id, Key |-> Nil, Value |-> BadEncoder(id)],
   [id |-> id, Key |-> GoodEncoder(id), Value |-> BadEncoder(id)]}

\* C12: when encoding the key or the value fails in add, the message is handed
\* exactly once to the error path with the encode error, and head, tail,
\* count, cursor, the backing array and its capacity are unchanged, even when
\* the array is completely full.
C12_EncodeFailureLeavesBuffer ==
  \A pm \in Unencodable(nextId) :
    /\ add(P, pm, <<>>).p = P
    /\ add(P, pm, <<>>).errors = <<[Msg |-> Ptr(pm), Err |-> ErrEncode]>>

C12_Witness ==
  /\ nbad = 1
  /\ count = Len(buf)
  /\ head > 0
  /\ cur > 0

\* The first k entries live when the markSuccess call began, as the consumer
\* is handed them: cleared.
Delivered(k) == [j \in 1..k |-> Ptr(clear(Deref(chan.pre[j])))]

\* C13: markSuccess(n) against a concurrently receiving consumer of the
\* blocking successes channel. With Return.Successes it sends the oldest n
\* messages, one send per entry, in the order they were added, and returns
\* only after the consumer received all n; without it nothing is sent and the
\* owner never waits at a send. Either way the n entries leave the buffer.
C13_SuccessesToConsumer ==
  /\ chan.got = IF conf.ReturnSuccesses THEN Delivered(chan.i) ELSE <<>>
  /\ \A j, k \in 1..Len(chan.got) : j < k => IdOf(chan.got[j]) < IdOf(chan.got[k])
  /\ pc = "send" => conf.ReturnSuccesses /\ chan.i < chan.n /\ chan.offer = Delivered(chan.i + 1)[chan.i + 1]
  /\ ~conf.ReturnSuccesses => pc # "send"
  /\ chan.done =>
       /\ chan.i = chan.n
       /\ \A k \in 1..Len(chan.pre) : LiveCount(IdOf(chan.pre[k])) = IF k <= chan.n THEN 0 ELSE 1

C13_Witness ==
  /\ conf.ReturnSuccesses
  /\ chan.done
  /\ chan.n = 3
  /\ Len(chan.got) = 3
  /\ count = 1
  /\ ~chan.ready

\* The identities of the live messages.
LiveIds == {IdOf(Live[i].in) : i \in 1..count}

MarkOps == {"markSuccess", "markFailure", "markImmediateFailure"}

\* C14: a next() that returns only advances the cursor by one: head, tail,
\* count, the capacity and every stored entry are unchanged; and an entry
\* leaves the buffer only in a markSuccess, markFailure or
\* markImmediateFailure step.
C14_NextOnlyAdvancesCursor ==
  [][/\ (last'.op = "next" /\ pc' = "run") =>
          /\ buf' = buf
          /\ head' = head
          /\ tail' = tail
          /\ count' = count
          /\ cur' = cur + 1
     /\ (\E id \in LiveIds : id \notin LiveIds') => last'.op \in MarkOps]_vars

C14_Witness ==
  /\ last.op = "next"
  /\ pc = "run"
  /\ head > 0
  /\ count = 2
  /\ cur = 2
  /\ ret = Live[2].out
  /\ Live[1].retries = 1

\* How many live messages a step takes out of the buffer (they leave from the head).
Gone == Cardinality(LiveIds \ LiveIds')

\* C15 as stated: a retry counter increases only while its entry is the
\* oldest pending entry of the buffer.
C15_RetryOnlyAtHead ==
  [][\A gone \in {Gone} : \A old \in {Live} : \A new \in {Live'} :
       \A i \in (gone + 1)..count :
          /\ IdOf(new[i - gone].in) = IdOf(old[i].in)
          /\ new[i - gone].retries > old[i].retries => i = 1]_vars

\* C15 amended: a retry counter changes only in markFailure(n, err), by one,
\* and only for an entry among the oldest n; every older pending entry has its
\* counter incremented in the same call (and is abandoned or stays in front).
C15_RetryOnlyInFailedBatch ==
  [][\A gone \in {Gone} : \A old \in {Live} : \A new \in {Live'} :
       \A i \in (gone + 1)..count :
          /\ IdOf(new[i - gone].in) = IdOf(old[i].in)
          /\ new[i - gone].retries # old[i].retries =>
               /\ last'.op = "markFailure"
               /\ i <= last'.n
               /\ new[i - gone].retries = old[i].retries + 1
               /\ \A j \in (gone + 1)..(i - 1) :
                    new[j - gone].retries = old[j].retries + 1]_vars

C15_Witness ==
  /\ last.op = "markFailure"
  /\ last.n = 2
  /\ count = 3
  /\ Live[1].retries = 2
  /\ Live[2].retries = 1
  /\ Live[3].retries = 0

\* C16: index arithmetic is modulo the current capacity. Between operations
\* 0 <= head < len(buf), 0 <= tail < len(buf) and tail = (head + count) mod
\* len(buf); right after a resize, and after the operation that resized,
\* head = 0 and tail = count mod len(buf) against the new capacity.
C16_IndexModuloCapacity ==
  /\ 0 <= head /\ head < Len(buf)
  /\ 0 <= tail /\ tail < Len(buf)
  /\ tail = (head + count) % Len(buf)
  /\ last.resized # "no" => head = 0 /\ tail = count % Len(buf)
  /\ (count = Len(buf) \/ (Len(buf) > minQueueLen /\ count * 4 = Len(buf))) =>
       /\ resize(P).head = 0
       /\ resize(P).tail = count % Len(resize(P).buf)
       /\ Len(resize(P).buf) = 2 * count

C16_Witness ==
  /\ last.resized = "grow"
  /\ last.wrapped
  /\ Len(buf) = 2 * minQueueLen
  /\ head = 0
  /\ tail = minQueueLen + 1
  /\ cur > 0

\* The (topic, partition) pairs that have a MessageSet in request r.
SetKeys(r) == {tp \in (DOMAIN r.msgSets) \X Partitions : tp[2] \in DOMAIN r.msgSets[tp[1]]}
SetAt(r, tp) == r.msgSets[tp[1]][tp[2]]

\* C17: AddMessage appends msg at the end of its (topic, partition)'s
\* MessageSet, creating the set on first use; AddSet replaces the set
\* wholesale; both leave every other (topic, partition) as it was, and both
\* work on a request whose topic map was never made.
C17_AddMessageAddSet ==
  \A t \in Topics, p \in Partitions :
    /\ \A msg \in CodecMessages :
         LET a   == AddMessageTo(req, t, p, msg)
             old == IF <<t, p>> \in SetKeys(req) THEN SetAt(req, <<t, p>>).Messages ELSE <<>>
         IN /\ ~a.panic
            /\ SetKeys(a.r) = SetKeys(req) \cup {<<t, p>>}
            /\ SetAt(a.r, <<t, p>>).Messages = Append(old, [Msg |-> msg])
            /\ \A tp \in SetKeys(req) \ {<<t, p>>} : SetAt(a.r, tp) = SetAt(req, tp)
    /\ \A set \in CodecSets :
         LET a == AddSetTo(req, t, p, set)
         IN /\ ~a.panic
            /\ SetKeys(a.r) = SetKeys(req) \cup {<<t, p>>}
            /\ SetAt(a.r, <<t, p>>) = set
            /\ \A tp \in SetKeys(req) \ {<<t, p>>} : SetAt(a.r, tp) = SetAt(req, tp)

C17_Witness ==
  /\ wire = Nil
  /\ Cardinality(SetKeys(req)) = 2
  /\ \E tp \in SetKeys(req) : Len(SetAt(req, tp).Messages) = 1
  /\ \E tp \in SetKeys(req) : Len(SetAt(req, tp).Messages) = 0
  /\ Cardinality(DOMAIN req.msgSets) = 1

\* How many of the oldest n entries reach Retry.Max when incremented.
AtLimit(n) == Cardinality({i \in 1..n : Live[i].retries + 1 = conf.RetryMax})

\* C18: with Retry.Max >= 1 the retry counters of the live entries are
\* non-increasing from head to tail and each is below Retry.Max; the entries
\* markFailure(n, err) removes are exactly those of the batch whose counter
\* reaches Retry.Max in that call, they are the oldest ones, and the others
\* stay, their counters incremented if they are in the batch.
C18_RetriesBelowLimit ==
  conf.RetryMax >= 1 =>
    /\ \A i \in 1..count : Live[i].retries < conf.RetryMax
    /\ \A i, j \in 1..count : i < j => Live[i].retries >= Live[j].retries
    /\ \A n \in 0..count, err \in Errs :
         LET r == markFailure(P, n, err, conf.RetryMax, <<>>)
             k == AtLimit(n)
         IN /\ \A i \in 1..n : (Live[i].retries + 1 = conf.RetryMax) <=> i <= k
            /\ r.errors = [i \in 1..k |-> [Msg |-> Live[i].in, Err |-> err]]
            /\ LiveOf(r.p) = [i \in 1..(count - k) |->
                               IF i + k <= n THEN [Live[i + k] EXCEPT !.retries = @ + 1]
                                             ELSE Live[i + k]]

C18_Witness ==
  /\ conf.RetryMax = 2
  /\ last.op = "markFailure"
  /\ last.n = 2
  /\ Len(errors) = 1
  /\ count = 2
  /\ Live[1].retries = 1
  /\ Live[2].retries = 0

\* The capacities minQueueLen * 2^k up to maxBuffer.
Capacities == {minQueueLen * (2 ^ k) : k \in 0..6}

NoAbandonEffect(n, err) ==
  LET r == markFailure(P, n, err, 0, <<>>)
  IN /\ r.errors = <<>>
     /\ r.p.count = count
     /\ r.p.cur = cur
     /\ LiveOf(r.p) = [i \in 1..count |->
                        IF i <= n THEN [Live[i] EXCEPT !.retries = @ + 1] ELSE Live[i]]

====
